---- MODULE Spec2Model ----
(***************************************************************************)
(* Crew recruitment portal: document store, completion evaluator, profile  *)
(* token issuer, status workflow and the routes that drive them.           *)
(*                                                                         *)
(* Sources: attached_assets/models_1754723152623.py (models),              *)
(*          attached_assets/utils_1754723152625.py (utils), routes.py.     *)
(*                                                                         *)
(* Python values: a nullable column is Null (the empty tuple) or Some(x)   *)
(* (a 1-tuple); a text is a sequence of words, so that replacing a text    *)
(* and appending to it differ.  A float that results from dividing an int  *)
(* by 1024.0 is the exact pair <<n, e>> = n / 1024^e.                      *)
(***************************************************************************)
EXTENDS Integers, Sequences, FiniteSets, TLC

\* ---------------------------------------------------------------- bounds
\* crew members that register through the portal
MaxCrew == 2
\* rows of crew_documents of the document types the model uploads
MaxDocs == 2
\* the clock runs from 0 to MaxTime
MaxTime == 1
\* files in one call of save_multiple_crew_documents
MaxBatch == 2
\* requests that run at the same time
MaxRequests == 2

\* ------------------------------------------------------- python helpers
Null == <<>>
Some(x) == <<x>>

Range(s) == {s[i] : i \in 1..Len(s)}

\* ------------------------------------------------------ document catalog
\* The literal of get_document_categories: an insertion-ordered dict of
\* categories, each with an ordered list of document types.
Categories ==
  << [key |-> "identity", documents |->
        << [type |-> "passport", required |-> TRUE],
           [type |-> "government_id", required |-> FALSE],
           [type |-> "photo", required |-> TRUE] >>],
     [key |-> "medical", documents |->
        << [type |-> "medical_certificate", required |-> TRUE],
           [type |-> "yellow_fever", required |-> FALSE] >>],
     [key |-> "professional", documents |->
        << [type |-> "cdc", required |-> TRUE],
           [type |-> "coc_cop", required |-> TRUE],
           [type |-> "stcw_certificates", required |-> TRUE],
           [type |-> "gmdss_dce", required |-> FALSE] >>],
     [key |-> "other", documents |->
        << [type |-> "resume", required |-> TRUE],
           [type |-> "sea_agreement", required |-> FALSE] >>] >>

\* The field -> category mapping of crew_private_profile, in dict order.
document_categories ==
  << [field |-> "passport", category |-> "identity"],
     [field |-> "government_id", category |-> "identity"],
     [field |-> "photo", category |-> "identity"],
     [field |-> "medical_certificate", category |-> "medical"],
     [field |-> "yellow_fever", category |-> "medical"],
     [field |-> "cdc", category |-> "professional"],
     [field |-> "coc_cop", category |-> "professional"],
     [field |-> "stcw_certificates", category |-> "professional"],
     [field |-> "gmdss_dce", category |-> "professional"],
     [field |-> "resume", category |-> "other"],
     [field |-> "sea_agreement", category |-> "other"] >>

DocumentTypes == {document_categories[i].field : i \in 1..Len(document_categories)}

\* ------------------------------------------------------------ the state
VARIABLES
  crew_members,   \* table crew_members: row id -> row (ids are 1..Len)
  crew_documents, \* table crew_documents: row id -> row (ids are 1..Len)
  disk,           \* UPLOAD_FOLDER: stored path -> bytes found there
  now,            \* datetime.utcnow()
  last,           \* the last call: what was called and what came back
  requests        \* requests that run concurrently: where each one stands
                  \* in its handler, with its local variables

vars == <<crew_members, crew_documents, disk, now, last, requests>>

CrewIds == 1..Len(crew_members)
DocIds == 1..Len(crew_documents)

\* A request in flight: op the function it runs, pc the statement it is
\* at, self the crew id it works on, then the local variables of the
\* functions (file .. cols), and what it returned or raised once done.
Requests == 1..MaxRequests

IdleRequest ==
  [op |-> "", pc |-> "idle", self |-> 0,
   file |-> Null, document_type |-> "", file_path |-> Null, file_size |-> 0,
   loaded |-> Null, passport |-> "", cols |-> Null,
   ret |-> Null, exc |-> ""]

NoRequests == [r \in Requests |-> IdleRequest]

\* ------------------------------------------------------------- inputs
\* werkzeug FileStorage objects a request can carry.  present = FALSE is
\* Python None; an empty filename is what a browser sends for an unused
\* file field (FileStorage is falsy then).
NoFile == [present |-> FALSE, filename |-> "", content_type |-> "", content |-> ""]
EmptyFile == [present |-> TRUE, filename |-> "", content_type |-> "", content |-> ""]
FileA == [present |-> TRUE, filename |-> "cv.pdf", content_type |-> "application/pdf", content |-> "A"]
FileB == [present |-> TRUE, filename |-> "../cv.pdf", content_type |-> "", content |-> "B"]
FileInputs == {NoFile, EmptyFile, FileA, FileB}

\* bool(file) and file.filename, the test `file and file.filename`
Truthy(file) == file.present /\ file.filename # ""

\* os.path.getsize of a completely written content
ContentSize(content) ==
  CASE content = "A" -> 2048
    [] content = "B" -> 512
    [] OTHER -> 0

\* what uuid.uuid4().hex[:8] can return (two draws may be equal)
UUIDs == {"u1", "u2"}

\* how file.save(file_path) can end: written; open() failed (nothing
\* touched); the copy failed after open() truncated/created the file
WriteOutcomes == {"ok", "open_failed", "copy_failed"}

\* werkzeug.utils.secure_filename on the filenames above
secure_filename(fn) ==
  CASE fn = "../cv.pdf" -> "cv.pdf"
    [] OTHER -> fn

\* --------------------------------------------------------- the queries
\* ORDER BY upload_date DESC leaves the order of equal dates to the
\* database; tb is the order the database happens to use for ties.
TieBreaks == {"asc", "desc"}

\* mutant: ORDER BY upload_date ASC
Before_Ascending(docs, i, j, tb) ==
  \/ docs[i].upload_date < docs[j].upload_date
  \/ /\ docs[i].upload_date = docs[j].upload_date
     /\ IF tb = "asc" THEN i < j ELSE i > j

Before(docs, i, j, tb) ==
  \/ docs[i].upload_date > docs[j].upload_date
  \/ /\ docs[i].upload_date = docs[j].upload_date
     /\ IF tb = "asc" THEN i < j ELSE i > j

RECURSIVE OrderByUploadDateDesc(_, _, _)
OrderByUploadDateDesc(docs, S, tb) ==
  IF S = {} THEN << >>
  ELSE LET first == CHOOSE i \in S : \A j \in S \ {i} : Before(docs, i, j, tb)
       IN  <<first>> \o OrderByUploadDateDesc(docs, S \ {first}, tb)

\* CrewDocument.query.filter_by(crew_id=, document_type=).order_by(...).all()
QueryByType(docs, crew_id, type, tb) ==
  OrderByUploadDateDesc(docs,
    {i \in 1..Len(docs) : docs[i].crew_id = crew_id /\ docs[i].document_type = type}, tb)

\* get_documents_by_category
QueryByCategory(docs, crew_id, category, tb) ==
  OrderByUploadDateDesc(docs,
    {i \in 1..Len(docs) : docs[i].crew_id = crew_id /\ docs[i].document_category = category}, tb)

\* get_all_documents
QueryAll(docs, crew_id, tb) ==
  OrderByUploadDateDesc(docs, {i \in 1..Len(docs) : docs[i].crew_id = crew_id}, tb)

\* ------------------------------------------------- completion evaluator
\* mutant: a type counts as uploaded only while it has exactly one file
get_document_categories_SingleFileOnly(docs, self_id, tb) ==
  [c \in 1..Len(Categories) |->
    [key |-> Categories[c].key,
     documents |->
       [d \in 1..Len(Categories[c].documents) |->
         LET doc == Categories[c].documents[d]
             doc_files == QueryByType(docs, self_id, doc.type, tb)
         IN  [type |-> doc.type,
              required |-> doc.required,
              files |-> doc_files,
              uploaded |-> Len(doc_files) = 1,
              status |-> IF Len(doc_files) = 1 THEN "complete" ELSE "missing",
              count |-> Len(doc_files)]]]]

\* get_document_categories(self): the catalog with every document type
\* augmented by files / uploaded / status / count for crew_id = self.id
get_document_categories(docs, self_id, tb) ==
  [c \in 1..Len(Categories) |->
    [key |-> Categories[c].key,
     documents |->
       [d \in 1..Len(Categories[c].documents) |->
         LET doc == Categories[c].documents[d]
             doc_files == QueryByType(docs, self_id, doc.type, tb)
         IN  [type |-> doc.type,
              required |-> doc.required,
              files |-> doc_files,
              uploaded |-> Len(doc_files) > 0,
              status |-> IF Len(doc_files) > 0 THEN "complete" ELSE "missing",
              count |-> Len(doc_files)]]]]

RECURSIVE Flatten(_)
Flatten(ss) == IF ss = << >> THEN << >> ELSE Head(ss) \o Flatten(Tail(ss))

\* get_required_documents(self): every catalog entry, in catalog order
get_required_documents(docs, self_id, tb) ==
  LET categories == get_document_categories(docs, self_id, tb)
  IN  Flatten([c \in 1..Len(categories) |-> categories[c].documents])

\* Python floats in [0, 100]: binary fixed point with FracScale steps per
\* unit, rounded to nearest (a double carries 53 bits, the model 20; the
\* truncation below is the same whenever the exact value is an integer
\* that is computed exactly or is farther than 100/FracScale from one).
FracScale == 2^20
FloatDiv(a, b) == (2 * a * FracScale + b) \div (2 * b)
FloatMul(x, k) == x * k
IntOfFloat(x) == x \div FracScale

IsRequired(doc) == doc.required

\* mutant: an uploaded optional document is counted as well
IsUploadedRequired_AnyUploaded(doc) == doc.uploaded

IsUploadedRequired(doc) == doc.required /\ doc.uploaded

\* get_profile_completion_percentage(self)
get_profile_completion_percentage(docs, self_id, tb) ==
  LET all_docs == get_required_documents(docs, self_id, tb)
      required_docs == SelectSeq(all_docs, IsRequired)
      uploaded_docs == SelectSeq(all_docs, IsUploadedRequired)
  IN  IF required_docs = << >> THEN 100
      ELSE IntOfFloat(FloatMul(FloatDiv(Len(uploaded_docs), Len(required_docs)), 100))

\* is_profile_complete(self)
is_profile_complete(docs, self_id, tb) ==
  get_profile_completion_percentage(docs, self_id, tb) = 100

\* ------------------------------------------------------ document store
\* The functions of utils run on a context st:
\*   docs, disk  the table crew_documents and the upload folder
\*   t           the clock
\*   orc         what the environment will answer, one entry per file that
\*               is written: the uuid drawn, how file.save ends, and how
\*               far the clock has moved on (dt) when the row is inserted
\*               (no row is inserted after a failed write, dt is 0 there)
\*   exc         the exception that is propagating ("" for none)
\*   ret         the value returned by the last call
Oracle ==
  {o \in [uuid : UUIDs, outcome : WriteOutcomes, dt : {0, 1}] :
     o.outcome = "ok" \/ o.dt = 0}

Ctx(docs, dsk, t, orc) ==
  [docs |-> docs, disk |-> dsk, t |-> t, orc |-> orc, exc |-> "", ret |-> Null]

\* f"crew_documents/{unique_filename}" with
\* unique_filename = f"crew_{uuid}_{name}{ext}"; name + ext is filename again
CrewDocumentPath(uuid, filename) ==
  [folder |-> "crew_documents", prefix |-> "crew", uuid |-> uuid, name |-> filename]

\* file.save(file_path): open(dst, "wb") then copy
FileSave(dsk, path, content, outcome) ==
  CASE outcome = "ok" -> (path :> content) @@ dsk
    [] outcome = "copy_failed" -> (path :> "truncated") @@ dsk
    [] OTHER -> dsk

\* the CrewDocument(...) row of save_crew_document
NewCrewDocument(file, crew_id, document_type, document_category, path, size, t) ==
  [crew_id |-> crew_id,
   document_type |-> document_type,
   document_category |-> document_category,
   filename |-> path,
   original_filename |-> file.filename,
   file_size |-> <<size, 0>>,
   mime_type |-> IF file.content_type # "" THEN file.content_type
                 ELSE "application/octet-stream",
   upload_date |-> t]

\* mutant: the row is added and committed before file.save is known to
\* have succeeded
save_crew_document_RecordsFirst(st, file, crew_id, document_type, document_category) ==
  IF ~Truthy(file) THEN [st EXCEPT !.ret = Null]
  ELSE
    LET o == Head(st.orc)
        filename == secure_filename(file.filename)
        file_path == CrewDocumentPath(o.uuid, filename)
        dsk == FileSave(st.disk, file_path, file.content, o.outcome)
        t == st.t + o.dt
        doc_record == NewCrewDocument(file, crew_id, document_type,
                        document_category, file_path,
                        IF file_path \in DOMAIN dsk
                        THEN ContentSize(dsk[file_path]) ELSE 0, t)
    IN  [st EXCEPT !.docs = Append(st.docs, doc_record),
                   !.disk = dsk, !.t = t, !.orc = Tail(st.orc),
                   !.exc = IF o.outcome # "ok" THEN "OSError" ELSE "",
                   !.ret = IF o.outcome # "ok" THEN Null
                           ELSE Some(Len(st.docs) + 1)]

\* save_crew_document(file, crew_id, document_type, document_category)
save_crew_document(st, file, crew_id, document_type, document_category) ==
  IF ~Truthy(file) THEN [st EXCEPT !.ret = Null]
  ELSE
    LET o == Head(st.orc)
        filename == secure_filename(file.filename)
        file_path == CrewDocumentPath(o.uuid, filename)
        dsk == FileSave(st.disk, file_path, file.content, o.outcome)
        t == st.t + o.dt
    IN  IF o.outcome # "ok"
        THEN [st EXCEPT !.disk = dsk, !.orc = Tail(st.orc), !.exc = "OSError",
                        !.ret = Null]
        ELSE LET doc_record == NewCrewDocument(file, crew_id, document_type,
                                 document_category, file_path,
                                 ContentSize(dsk[file_path]), t)
             IN  [st EXCEPT !.docs = Append(st.docs, doc_record),
                            !.disk = dsk, !.t = t, !.orc = Tail(st.orc),
                            !.ret = Some(Len(st.docs) + 1)]

\* A request's `files` argument: a list of files, or one bare file
\* (is_list = FALSE, items = <<file>>), or None (is_list = FALSE, <<NoFile>>)
FileList(items) == [is_list |-> TRUE, items |-> items]
BareFile(file) == [is_list |-> FALSE, items |-> <<file>>]

\* `not files`
Falsy(files) ==
  IF files.is_list THEN files.items = << >> ELSE ~Truthy(files.items[1])

\* the for loop of save_multiple_crew_documents from item i on; an
\* exception raised by save_crew_document leaves the loop and the function
RECURSIVE SaveLoop(_, _, _, _, _, _, _)
SaveLoop(st, items, i, saved_docs, crew_id, document_type, document_category) ==
  IF i > Len(items) THEN [st EXCEPT !.ret = saved_docs]
  ELSE IF ~Truthy(items[i])
       THEN SaveLoop(st, items, i + 1, saved_docs, crew_id, document_type,
                     document_category)
       ELSE LET st1 == save_crew_document(st, items[i], crew_id, document_type,
                                          document_category)
            IN  IF st1.exc # "" THEN st1
                ELSE SaveLoop(st1, items, i + 1,
                              IF st1.ret # Null THEN saved_docs \o st1.ret
                              ELSE saved_docs,
                              crew_id, document_type, document_category)

\* mutant: one empty file in the list makes the function give up
save_multiple_crew_documents_RejectsMixed(st, files, crew_id, document_type, document_category) ==
  IF Falsy(files) \/ \E i \in 1..Len(files.items) : ~Truthy(files.items[i])
  THEN [st EXCEPT !.ret = << >>]
  ELSE SaveLoop(st, files.items, 1, << >>, crew_id, document_type, document_category)

\* save_multiple_crew_documents(files, crew_id, document_type, document_category)
save_multiple_crew_documents(st, files, crew_id, document_type, document_category) ==
  IF Falsy(files) THEN [st EXCEPT !.ret = << >>]
  ELSE SaveLoop(st, files.items, 1, << >>, crew_id, document_type, document_category)

\* number of files of a list that pass `file and file.filename`
NumTruthy(items) == Cardinality({i \in 1..Len(items) : Truthy(items[i])})

\* -------------------------------------------------- size formatting
\* file_size is <<n, e>>, the number n / 1024^e
Pow1024(e) == 1024 ^ e

\* self.file_size < 1024.0
Below1024(fs) == (fs[1] \div Pow1024(fs[2])) < 1024

\* f"{self.file_size:.1f}": the tenths, round-half-even on the exact value
Tenths(fs) ==
  LET num == fs[1] * 10
      den == Pow1024(fs[2])
      q == num \div den
      r == num % den
  IN  IF 2 * r > den \/ (2 * r = den /\ q % 2 = 1) THEN q + 1 ELSE q

Units == <<"B", "KB", "MB", "GB">>

\* the for loop of get_file_size_formatted from unit u on:
\* `self.file_size /= 1024.0` assigns the attribute of the record
RECURSIVE FormatLoop(_, _)
FormatLoop(fs, u) ==
  IF u > Len(Units) THEN [file_size |-> fs, ret |-> <<Tenths(fs), "TB">>]
  ELSE IF Below1024(fs) THEN [file_size |-> fs, ret |-> <<Tenths(fs), Units[u]>>]
       ELSE FormatLoop(<<fs[1], fs[2] + 1>>, u + 1)

\* CrewDocument.get_file_size_formatted(self): the record's file_size
\* afterwards and the text returned
get_file_size_formatted(doc) ==
  IF doc.file_size[1] = 0
  THEN [file_size |-> doc.file_size, ret |-> <<0, "Unknown size">>]
  ELSE FormatLoop(doc.file_size, 1)

\* ------------------------------------------------------ profile token
\* what secrets.token_bytes(32) can return (two draws may be equal)
RandomBytes == {"r1", "r2"}

\* hashlib.sha256(f"{id}_{passport}_{hex}".encode()).hexdigest(): a hash
\* without collisions, so the token stands for the data it was made from
Sha256Hex(id, passport, random_bytes) == <<id, passport, random_bytes>>

\* mutant: the `if not self.profile_token` guard is missing, every call
\* issues a new token
generate_profile_token_Rotates(self, id, random_bytes, t) ==
  LET token == Sha256Hex(id, self.passport, random_bytes)
  IN  [row |-> [self EXCEPT !.profile_token = Some(token), !.updated_at = t],
       ret |-> Some(token)]

\* generate_profile_token(self) applied to the crew member row `self` with
\* primary key id; db.session.commit() writes the row, and a written row
\* gets updated_at = utcnow() (onupdate)
generate_profile_token(self, id, random_bytes, t) ==
  IF self.profile_token = Null
  THEN LET token == Sha256Hex(id, self.passport, random_bytes)
       IN  [row |-> [self EXCEPT !.profile_token = Some(token), !.updated_at = t],
            ret |-> Some(token)]
  ELSE [row |-> self, ret |-> self.profile_token]

\* The attributes Python finds on an instance of each model class: the
\* methods defined in the class body (the columns are not listed).
\* generate_profile_token, get_document_categories, ... are defined in the
\* body of class CrewDocument, not of class CrewMember.
ClassMethods(cls) ==
  CASE cls = "CrewMember" -> {"__repr__", "get_status_name", "get_status_class"}
    [] cls = "CrewDocument" ->
         {"__repr__", "get_file_size_formatted", "generate_profile_token",
          "get_document_categories", "get_required_documents",
          "get_documents_by_category", "get_all_documents",
          "get_profile_completion_percentage", "is_profile_complete"}
    [] OTHER -> {}

\* ---------------------------------------------------- legacy uploads
\* save_uploaded_file(file, folder_type): writes the file, no table row;
\* ret is Some(path) or Null
save_uploaded_file(st, file, folder_type) ==
  IF ~Truthy(file) THEN [st EXCEPT !.ret = Null]
  ELSE
    LET o == Head(st.orc)
        filename == secure_filename(file.filename)
        file_path == [folder |-> folder_type, prefix |-> folder_type,
                      uuid |-> o.uuid, name |-> filename]
        dsk == FileSave(st.disk, file_path, file.content, o.outcome)
    IN  IF o.outcome # "ok"
        THEN [st EXCEPT !.disk = dsk, !.orc = Tail(st.orc), !.exc = "OSError",
                        !.ret = Null]
        ELSE [st EXCEPT !.disk = dsk, !.orc = Tail(st.orc), !.ret = Some(file_path)]

\* register_crew: file_fields, in list order
file_fields ==
  <<"passport_file", "cdc_file", "resume_file", "photo_file",
    "medical_certificate_file">>

NoFileColumns == [f \in Range(file_fields) |-> Null]

\* the loop over file_fields of register_crew from field i on; ret is the
\* file columns set on the new crew member so far
RECURSIVE RegisterFilesLoop(_, _, _, _)
RegisterFilesLoop(st, form_files, cols, i) ==
  IF i > Len(file_fields) THEN [st EXCEPT !.ret = cols]
  ELSE IF ~Truthy(form_files[file_fields[i]])
       THEN RegisterFilesLoop(st, form_files, cols, i + 1)
       ELSE LET st1 == save_uploaded_file(st, form_files[file_fields[i]], "crew")
            IN  IF st1.exc # "" THEN st1
                ELSE RegisterFilesLoop(st1, form_files,
                       [cols EXCEPT ![file_fields[i]] = st1.ret], i + 1)

\* str.upper() on the passport numbers a form can carry
Upper(passport) ==
  CASE passport = "ab1" -> "AB1"
    [] OTHER -> passport

PassportInputs == {"ab1", "AB1", "CD2"}

\* the CrewMember(...) row of register_crew once committed: column
\* defaults status = 0, created_at = updated_at = utcnow()
NewCrewMember(passport, cols, t) ==
  [passport |-> passport,
   status |-> 0,
   admin_notes |-> Null,
   profile_token |-> Null,
   file_columns |-> cols,
   created_at |-> t,
   updated_at |-> t]

\* CrewMember.query.filter_by(passport=p).first()
CrewByPassport(crew, p) == {i \in 1..Len(crew) : crew[i].passport = p}

\* --------------------------------------------------------- responses
Response(status, target, flash) == [status |-> status, target |-> target, flash |-> flash]

Call(op, self, arg, ret, exc) ==
  [op |-> op, self |-> self, arg |-> arg, ret |-> ret, exc |-> exc]

\* ------------------------------------------------------------- Init
\* an empty database and an empty upload folder
Init ==
  /\ crew_members = << >>
  /\ crew_documents = << >>
  /\ disk = << >>
  /\ now = 0
  /\ last = Call("init", 0, << >>, << >>, "")
  /\ requests = NoRequests

\* time passes
Tick ==
  /\ UNCHANGED requests
  /\ now < MaxTime
  /\ now' = now + 1
  /\ UNCHANGED <<crew_members, crew_documents, disk, last>>

\* ------------------------------------------------------ register_crew
\* routes.register_crew; valid is form.validate_on_submit()
RegisterCrew(valid, passport_data, form_files, orc) ==
  /\ UNCHANGED requests
  /\ LET passport == Upper(passport_data)
         st0 == Ctx(crew_documents, disk, now, orc)
         st1 == RegisterFilesLoop(st0, form_files, NoFileColumns, 1)
     IN
     IF ~valid
     THEN /\ orc = << >>
          /\ last' = Call("register_crew", 0, passport_data,
                          Response(200, "register_crew.html", ""), "")
          /\ UNCHANGED <<crew_members, crew_documents, disk, now>>
     ELSE IF CrewByPassport(crew_members, passport) # {}
     THEN /\ orc = << >>
          /\ last' = Call("register_crew", 0, passport_data,
                          Response(200, "register_crew.html", "error"), "")
          /\ UNCHANGED <<crew_members, crew_documents, disk, now>>
     ELSE /\ Len(orc) = Cardinality({f \in Range(file_fields) : Truthy(form_files[f])})
          /\ Len(crew_members) < MaxCrew
          /\ IF st1.exc # ""
             THEN /\ disk' = st1.disk
                  /\ last' = Call("register_crew", 0, passport_data,
                                  Response(500, "", ""), st1.exc)
                  /\ UNCHANGED <<crew_members, crew_documents, now>>
             ELSE LET id == Len(crew_members) + 1
                      row == NewCrewMember(passport, st1.ret, now)
                  IN  /\ disk' = st1.disk
                      /\ UNCHANGED <<crew_documents, now>>
                      /\ IF "generate_profile_token" \in ClassMethods("CrewMember")
                         THEN \E random_bytes \in RandomBytes :
                                LET g == generate_profile_token(row, id, random_bytes, now)
                                IN  /\ crew_members' = Append(crew_members, g.row)
                                    /\ last' = Call("register_crew", id, passport_data,
                                                 Response(302, "track_status", "success"), "")
                         ELSE /\ crew_members' = Append(crew_members, row)
                              /\ last' = Call("register_crew", id, passport_data,
                                              Response(500, "", ""), "AttributeError")

\* ------------------------------------------- token issuance (function)
\* generate_profile_token(self) called with a crew member as self
GenerateProfileToken(c, random_bytes) ==
  /\ UNCHANGED requests
  /\ c \in CrewIds
  /\ LET g == generate_profile_token(crew_members[c], c, random_bytes, now)
     IN  /\ crew_members' = [crew_members EXCEPT ![c] = g.row]
         /\ last' = Call("generate_profile_token", c,
                         [before |-> crew_members[c].profile_token], g.ret, "")
  /\ UNCHANGED <<crew_documents, disk, now>>

\* routes.generate_profile_link: login_required, get_or_404, then the
\* method call crew_member.generate_profile_token()
GenerateProfileLink(authenticated, crew_id) ==
  /\ UNCHANGED requests
  /\ UNCHANGED <<crew_documents, disk, now>>
  /\ IF ~authenticated
     THEN /\ last' = Call("generate_profile_link", crew_id, << >>,
                          Response(401, "admin_login", ""), "")
          /\ UNCHANGED crew_members
     ELSE IF crew_id \notin CrewIds
     THEN /\ last' = Call("generate_profile_link", crew_id, << >>,
                          Response(404, "", ""), "")
          /\ UNCHANGED crew_members
     ELSE IF "generate_profile_token" \in ClassMethods("CrewMember")
     THEN \E random_bytes \in RandomBytes :
            LET g == generate_profile_token(crew_members[crew_id], crew_id,
                                            random_bytes, now)
            IN  /\ crew_members' = [crew_members EXCEPT ![crew_id] = g.row]
                /\ last' = Call("generate_profile_link", crew_id, << >>,
                                Response(302, "crew_profile", "success"), "")
     ELSE /\ last' = Call("generate_profile_link", crew_id, << >>,
                          Response(500, "", ""), "AttributeError")
          /\ UNCHANGED crew_members

\* ------------------------------------------------ crew_private_profile
\* the loop over document_categories.items() from entry i on; ret is
\* updated_docs, one <<field, count>> per field with saved files
RECURSIVE UploadLoop(_, _, _, _, _)
UploadLoop(st, form, crew_id, i, updated_docs) ==
  IF i > Len(document_categories) THEN [st EXCEPT !.ret = updated_docs]
  ELSE LET field_name == document_categories[i].field
           doc_info == document_categories[i]
       IN  IF form[field_name] = << >>
           THEN UploadLoop(st, form, crew_id, i + 1, updated_docs)
           ELSE LET st1 == save_multiple_crew_documents(st, FileList(form[field_name]),
                              crew_id, field_name, doc_info.category)
                IN  IF st1.exc # "" THEN st1
                    ELSE UploadLoop(st1, form, crew_id, i + 1,
                           IF st1.ret # << >>
                           THEN Append(updated_docs, <<field_name, Len(st1.ret)>>)
                           ELSE updated_docs)

\* number of files of a form that will be written
FormTruthy(form) ==
  LET RECURSIVE Sum(_)
      Sum(i) == IF i > Len(document_categories) THEN 0
                ELSE NumTruthy(form[document_categories[i].field]) + Sum(i + 1)
  IN  Sum(1)

\* mutant: a crew member without a token is open to every token
TokenAccepted_UnsetIsOpen(crew, crew_id, token) ==
  /\ crew_id \in 1..Len(crew)
  /\ \/ crew[crew_id].profile_token = Null
     \/ crew[crew_id].profile_token = Some(token)

\* the token check of crew_private_profile
TokenAccepted(crew, crew_id, token) ==
  /\ crew_id \in 1..Len(crew)
  /\ crew[crew_id].profile_token # Null
  /\ crew[crew_id].profile_token = Some(token)

\* the two refusals of crew_private_profile: get_or_404 aborts with 404,
\* a failed token check flashes an error and redirects to index
Denied(crew, crew_id, token) ==
  crew_id \notin 1..Len(crew) \/ ~TokenAccepted(crew, crew_id, token)

DenialResponse(crew, crew_id, token) ==
  IF crew_id \notin 1..Len(crew) THEN Response(404, "", "")
  ELSE Response(302, "index", "error")

\* @app.route('/my-profile/<int:crew_id>-<token>') names no methods: the
\* rule answers GET (and HEAD, OPTIONS), every other method gets 405
\* before the view function runs
RouteMethods(endpoint) ==
  CASE endpoint = "crew_private_profile" -> {"GET"}
    [] endpoint = "register_crew" -> {"GET", "POST"}
    [] endpoint = "update_crew_status" -> {"POST"}
    [] OTHER -> {"GET"}

Methods == {"GET", "POST"}

\* document_form.validate_on_submit(): the request is a submission (POST,
\* PUT, PATCH or DELETE) and the fields validate (they are all optional)
validate_on_submit(method) == method \in {"POST", "PUT", "PATCH", "DELETE"}

\* routes.crew_private_profile(crew_id, token) for a request with the
\* given method; form is the file fields of the request, orc the
\* environment's answers for the files of the form
CrewPrivateProfile(method, crew_id, token, form, orc) ==
  /\ UNCHANGED requests
  /\ LET st0 == Ctx(crew_documents, disk, now, orc)
         st1 == UploadLoop(st0, form, crew_id, 1, << >>)
         submitted == validate_on_submit(method)
         req == [method |-> method, token |-> token, files |-> FormTruthy(form)]
     IN
     IF method \notin RouteMethods("crew_private_profile")
     THEN /\ last' = Call("crew_private_profile", crew_id, req,
                          Response(405, "", ""), "")
          /\ UNCHANGED <<crew_members, crew_documents, disk, now>>
     ELSE IF Denied(crew_members, crew_id, token)
     THEN /\ last' = Call("crew_private_profile", crew_id, req,
                          DenialResponse(crew_members, crew_id, token), "")
          /\ UNCHANGED <<crew_members, crew_documents, disk, now>>
     ELSE IF ~submitted
     THEN /\ last' = Call("crew_private_profile", crew_id, req,
                          Response(200, "crew_private_profile.html", ""), "")
          /\ UNCHANGED <<crew_members, crew_documents, disk, now>>
     ELSE /\ Len(crew_documents) + Len(orc) <= MaxDocs
          /\ st1.t <= MaxTime
          /\ crew_documents' = st1.docs
          /\ disk' = st1.disk
          /\ now' = st1.t
          /\ IF st1.exc # ""
             THEN /\ last' = Call("crew_private_profile", crew_id, req,
                                  Response(500, "", ""), st1.exc)
                  /\ UNCHANGED crew_members
             ELSE IF st1.ret # << >>
             THEN /\ crew_members' = [crew_members EXCEPT ![crew_id].updated_at = st1.t]
                  /\ last' = Call("crew_private_profile", crew_id, req,
                                  Response(302, "crew_private_profile", "success"), "")
             ELSE /\ UNCHANGED crew_members
                  /\ last' = Call("crew_private_profile", crew_id, req,
                                  Response(302, "crew_private_profile", "warning"), "")

\* ------------------------------------------------- update_crew_status
\* mutant: the note is appended to the stored notes
ApplyAction_AppendsNotes(row, action, notes, t) ==
  LET old == IF row.admin_notes = Null THEN << >> ELSE row.admin_notes[1]
      r == CASE action = "approve" -> [row EXCEPT !.status = 3, !.admin_notes = Some(old \o notes)]
             [] action = "reject" -> [row EXCEPT !.status = -1, !.admin_notes = Some(old \o notes)]
             [] action = "flag" -> [row EXCEPT !.status = -2, !.admin_notes = Some(old \o notes)]
             [] OTHER -> row
  IN  [r EXCEPT !.updated_at = t]

\* routes.update_crew_status: the branches on action, then updated_at
ApplyAction(row, action, notes, t) ==
  LET r == CASE action = "approve" -> [row EXCEPT !.status = 3, !.admin_notes = Some(notes)]
             [] action = "reject" -> [row EXCEPT !.status = -1, !.admin_notes = Some(notes)]
             [] action = "flag" -> [row EXCEPT !.status = -2, !.admin_notes = Some(notes)]
             [] OTHER -> row
  IN  [r EXCEPT !.updated_at = t]

ActionFlash(action) ==
  CASE action = "approve" -> "success"
    [] action = "reject" -> "warning"
    [] action = "flag" -> "info"
    [] OTHER -> ""

\* routes.update_crew_status: login_required, get_or_404, the action
UpdateCrewStatus(authenticated, crew_id, action, notes) ==
  /\ UNCHANGED requests
  /\ LET req == [action |-> action, notes |-> notes,
                 before |-> IF crew_id \in CrewIds
                            THEN Some([status |-> crew_members[crew_id].status,
                                       admin_notes |-> crew_members[crew_id].admin_notes])
                            ELSE Null]
     IN
     /\ UNCHANGED <<crew_documents, disk, now>>
     /\ IF ~authenticated
        THEN /\ last' = Call("update_crew_status", crew_id, req,
                             Response(401, "admin_login", ""), "")
             /\ UNCHANGED crew_members
        ELSE IF crew_id \notin CrewIds
        THEN /\ last' = Call("update_crew_status", crew_id, req,
                             Response(404, "", ""), "")
             /\ UNCHANGED crew_members
        ELSE /\ crew_members' = [crew_members EXCEPT
                                   ![crew_id] = ApplyAction(@, action, notes, now)]
             /\ last' = Call("update_crew_status", crew_id, req,
                             Response(302, "crew_profile", ActionFlash(action)), "")

\* ------------------------------------------- document store (functions)
\* the document types and categories a caller passes (the pairs of
\* document_categories)
CategoryOf(document_type) ==
  LET i == CHOOSE k \in 1..Len(document_categories) :
             document_categories[k].field = document_type
  IN  document_categories[i].category

\* document types the callers of this model upload: one required, one optional
UploadTypes == {"passport", "government_id"}

\* the rows of those types (the rows MaxDocs counts)
UploadedRows(docs) ==
  Cardinality({i \in 1..Len(docs) : docs[i].document_type \in UploadTypes})

\* save_crew_document called for an existing crew member
SaveCrewDocument(file, crew_id, document_type, orc) ==
  /\ UNCHANGED requests
  /\ crew_id \in CrewIds
  /\ UploadedRows(crew_documents) + Len(orc) <= MaxDocs
  /\ LET st == save_crew_document(Ctx(crew_documents, disk, now, orc), file,
                  crew_id, document_type, CategoryOf(document_type))
     IN  /\ st.t <= MaxTime
         /\ crew_documents' = st.docs
         /\ disk' = st.disk
         /\ now' = st.t
         /\ last' = Call("save_crew_document", crew_id,
                         [truthy |-> Truthy(file), document_type |-> document_type,
                          before |-> Len(crew_documents)],
                         st.ret, st.exc)
  /\ UNCHANGED crew_members

\* save_multiple_crew_documents called for an existing crew member
SaveMultipleCrewDocuments(files, crew_id, document_type, orc) ==
  /\ UNCHANGED requests
  /\ crew_id \in CrewIds
  /\ UploadedRows(crew_documents) + Len(orc) <= MaxDocs
  /\ LET st == save_multiple_crew_documents(Ctx(crew_documents, disk, now, orc),
                  files, crew_id, document_type, CategoryOf(document_type))
     IN  /\ st.t <= MaxTime
         /\ crew_documents' = st.docs
         /\ disk' = st.disk
         /\ now' = st.t
         /\ last' = Call("save_multiple_crew_documents", crew_id,
                         [given |-> Len(files.items),
                          truthy |-> NumTruthy(files.items),
                          failed |-> Cardinality({k \in 1..Len(orc) :
                                                   orc[k].outcome # "ok"}),
                          document_type |-> document_type,
                          before |-> Len(crew_documents)],
                         st.ret, st.exc)
  /\ UNCHANGED crew_members

\* get_file_size_formatted called on document d; the method assigns to
\* self.file_size, an attribute of the row loaded in the session
GetFileSizeFormatted(d) ==
  /\ UNCHANGED requests
  /\ d \in DocIds
  /\ LET f == get_file_size_formatted(crew_documents[d])
     IN  /\ crew_documents' = [crew_documents EXCEPT ![d].file_size = f.file_size]
         /\ last' = Call("get_file_size_formatted", d, << >>, f.ret, "")
  /\ UNCHANGED <<crew_members, disk, now>>

\* get_document_categories called with a crew member as self
GetDocumentCategories(c, tb) ==
  /\ UNCHANGED requests
  /\ c \in CrewIds
  /\ last' = Call("get_document_categories", c, << >>,
                  get_document_categories(crew_documents, c, tb), "")
  /\ UNCHANGED <<crew_members, crew_documents, disk, now>>

\* get_profile_completion_percentage called with a crew member as self
GetProfileCompletionPercentage(c, tb) ==
  /\ UNCHANGED requests
  /\ c \in CrewIds
  /\ last' = Call("get_profile_completion_percentage", c, << >>,
                  get_profile_completion_percentage(crew_documents, c, tb), "")
  /\ UNCHANGED <<crew_members, crew_documents, disk, now>>

\* ----------------------------------- concurrent save_crew_document
\* Two or more calls of save_crew_document that run at the same time
\* (one per request of the web server).  Each call shares the upload
\* folder and the table with the others and takes its steps one at a time.

\* lines 32-45: the falsy check, uuid.uuid4().hex[:8] and the file path
UploadBegin(r, file, crew_id, document_type, uuid) ==
  /\ requests[r].pc = "idle"
  /\ crew_id \in CrewIds
  /\ requests' = [requests EXCEPT ![r] =
       IF ~Truthy(file)
       THEN [@ EXCEPT !.op = "save_crew_document", !.pc = "done",
                      !.self = crew_id, !.file = Some(file),
                      !.document_type = document_type]
       ELSE [@ EXCEPT !.op = "save_crew_document", !.pc = "file_save",
                      !.self = crew_id, !.file = Some(file),
                      !.document_type = document_type,
                      !.file_path = Some(CrewDocumentPath(uuid,
                                           secure_filename(file.filename)))]]
  /\ UNCHANGED <<crew_members, crew_documents, disk, now, last>>

\* line 46: file.save(file_path)
UploadFileSave(r, outcome) ==
  /\ requests[r].op = "save_crew_document"
  /\ requests[r].pc = "file_save"
  /\ disk' = FileSave(disk, requests[r].file_path[1],
                      requests[r].file[1].content, outcome)
  /\ requests' = [requests EXCEPT ![r] =
       IF outcome # "ok"
       THEN [@ EXCEPT !.pc = "done", !.exc = "OSError"]
       ELSE [@ EXCEPT !.pc = "getsize"]]
  /\ UNCHANGED <<crew_members, crew_documents, now, last>>

\* line 49: file_size = os.path.getsize(file_path)
UploadGetSize(r) ==
  /\ requests[r].op = "save_crew_document"
  /\ requests[r].pc = "getsize"
  /\ requests' = [requests EXCEPT ![r] =
       [@ EXCEPT !.pc = "commit",
                 !.file_size = ContentSize(disk[requests[r].file_path[1]])]]
  /\ UNCHANGED <<crew_members, crew_documents, disk, now, last>>

\* lines 52-65: the CrewDocument row, db.session.add, commit, return
UploadCommit(r) ==
  /\ requests[r].op = "save_crew_document"
  /\ requests[r].pc = "commit"
  /\ Len(crew_documents) < MaxDocs
  /\ crew_documents' = Append(crew_documents,
       NewCrewDocument(requests[r].file[1], requests[r].self,
                       requests[r].document_type,
                       CategoryOf(requests[r].document_type),
                       requests[r].file_path[1], requests[r].file_size, now))
  /\ requests' = [requests EXCEPT ![r] =
       [@ EXCEPT !.pc = "done", !.ret = Some(Len(crew_documents) + 1)]]
  /\ UNCHANGED <<crew_members, disk, now, last>>

\* ---------------------------- concurrent generate_profile_token
\* Calls of generate_profile_token(self) that run at the same time, each
\* in a request with its own database session: self is the row as that
\* session loaded it (CrewMember.query.get_or_404), and commit writes the
\* attributes the call has set.

\* the unique constraint of the column profile_token
TokenTaken(crew, c, token) ==
  \E i \in 1..Len(crew) : i # c /\ crew[i].profile_token = Some(token)

\* the request loads crew member c
TokenLoad(r, c) ==
  /\ requests[r].pc = "idle"
  /\ c \in CrewIds
  /\ requests' = [requests EXCEPT ![r] =
       [@ EXCEPT !.op = "generate_profile_token", !.pc = "loaded",
                 !.self = c, !.loaded = Some(crew_members[c])]]
  /\ UNCHANGED <<crew_members, crew_documents, disk, now, last>>

\* lines 136-143 on the loaded row: the check, the new token, commit, return
TokenIssue(r, random_bytes) ==
  /\ requests[r].op = "generate_profile_token"
  /\ requests[r].pc = "loaded"
  /\ LET c == requests[r].self
         self == requests[r].loaded[1]
         g == generate_profile_token(self, c, random_bytes, now)
     IN  IF self.profile_token # Null
         THEN /\ requests' = [requests EXCEPT ![r] =
                   [@ EXCEPT !.pc = "done", !.ret = g.ret]]
              /\ UNCHANGED crew_members
         ELSE IF TokenTaken(crew_members, c, g.ret[1])
         THEN /\ requests' = [requests EXCEPT ![r] =
                   [@ EXCEPT !.pc = "done", !.exc = "IntegrityError"]]
              /\ UNCHANGED crew_members
         ELSE /\ crew_members' = [crew_members EXCEPT ![c] =
                   [@ EXCEPT !.profile_token = g.row.profile_token,
                             !.updated_at = g.row.updated_at]]
              /\ requests' = [requests EXCEPT ![r] =
                   [@ EXCEPT !.pc = "done", !.ret = g.ret]]
  /\ UNCHANGED <<crew_documents, disk, now, last>>

\* ------------------------------------------ concurrent register_crew
\* Requests to register_crew that run at the same time.  The passport
\* query (line 29) and the commit (line 61) are separate statements of a
\* request, so another request can commit between them.

\* mutant: the column passport without unique=True
UniqueViolation_NoConstraint(crew, passport) == FALSE

\* passport = db.Column(db.String(32), unique=True, nullable=False): the
\* INSERT of a row with a passport that is in the table fails
UniqueViolation(crew, passport) == CrewByPassport(crew, passport) # {}

\* lines 27-58: validate_on_submit, the passport query, the file loop
RegisterCheck(r, valid, passport_data, form_files, orc) ==
  /\ requests[r].pc = "idle"
  /\ UNCHANGED <<crew_members, crew_documents, now, last>>
  /\ LET passport == Upper(passport_data)
         st0 == Ctx(crew_documents, disk, now, orc)
         st1 == RegisterFilesLoop(st0, form_files, NoFileColumns, 1)
         req == [requests[r] EXCEPT !.op = "register_crew", !.passport = passport]
     IN
     IF ~valid
     THEN /\ orc = << >>
          /\ requests' = [requests EXCEPT ![r] =
               [req EXCEPT !.pc = "done",
                           !.ret = Some(Response(200, "register_crew.html", ""))]]
          /\ UNCHANGED disk
     ELSE IF CrewByPassport(crew_members, passport) # {}
     THEN /\ orc = << >>
          /\ requests' = [requests EXCEPT ![r] =
               [req EXCEPT !.pc = "done",
                           !.ret = Some(Response(200, "register_crew.html", "error"))]]
          /\ UNCHANGED disk
     ELSE /\ Len(orc) = Cardinality({f \in Range(file_fields) : Truthy(form_files[f])})
          /\ disk' = st1.disk
          /\ requests' = [requests EXCEPT ![r] =
               IF st1.exc # ""
               THEN [req EXCEPT !.pc = "done", !.exc = st1.exc,
                                !.ret = Some(Response(500, "", ""))]
               ELSE [req EXCEPT !.pc = "commit", !.cols = Some(st1.ret)]]

\* lines 60-67: db.session.add, commit, generate_profile_token, redirect
RegisterCommit(r) ==
  /\ requests[r].op = "register_crew"
  /\ requests[r].pc = "commit"
  /\ UNCHANGED <<crew_documents, disk, now, last>>
  /\ IF UniqueViolation(crew_members, requests[r].passport)
     THEN /\ requests' = [requests EXCEPT ![r] =
               [@ EXCEPT !.pc = "done", !.exc = "IntegrityError",
                         !.ret = Some(Response(500, "", ""))]]
          /\ UNCHANGED crew_members
     ELSE LET id == Len(crew_members) + 1
              row == NewCrewMember(requests[r].passport, requests[r].cols[1], now)
          IN  /\ Len(crew_members) < MaxCrew
              /\ IF "generate_profile_token" \in ClassMethods("CrewMember")
                 THEN \E random_bytes \in RandomBytes :
                        LET g == generate_profile_token(row, id, random_bytes, now)
                        IN  /\ crew_members' = Append(crew_members, g.row)
                            /\ requests' = [requests EXCEPT ![r] =
                                 [@ EXCEPT !.pc = "done", !.self = id,
                                    !.ret = Some(Response(302, "track_status",
                                                          "success"))]]
                 ELSE /\ crew_members' = Append(crew_members, row)
                      /\ requests' = [requests EXCEPT ![r] =
                           [@ EXCEPT !.pc = "done", !.self = id,
                                     !.exc = "AttributeError",
                                     !.ret = Some(Response(500, "", ""))]]

\* ------------------------------------------------ the inputs of Next
SeqsUpTo(S, n) == UNION {[1..k -> S] : k \in 0..n}

\* the answers the environment can give for k written files
OracleSeqs(O, k) == [1..k -> O]

\* the `file` arguments of save_crew_document
BatchFiles == {NoFile, EmptyFile, FileA}

\* the `files` arguments of save_multiple_crew_documents: a list of
\* FileStorage objects (request.files.getlist), one bare file, or None
BatchInputs ==
  {FileList(items) : items \in SeqsUpTo({EmptyFile, FileA}, MaxBatch)}
    \cup {BareFile(file) : file \in BatchFiles}

\* the forms posted to crew_private_profile (MultipleFileField data per
\* field): no file at all, or an empty and a real file in one field
EmptyForm == [f \in DocumentTypes |-> << >>]
FormInputs ==
  {EmptyForm} \cup
  {[f \in DocumentTypes |-> IF f = g THEN <<EmptyFile, FileA>> ELSE << >>] :
     g \in UploadTypes}

\* the file fields posted to register_crew
RegistrationFiles ==
  {[f \in Range(file_fields) |-> NoFile],
   [f \in Range(file_fields) |-> IF f = "passport_file" THEN FileA ELSE EmptyFile]}

\* the tokens a URL can carry: every token in the table, and one that is not
WrongToken == Sha256Hex(0, "", "r1")
PresentedTokens ==
  {crew_members[i].profile_token[1] :
     i \in {k \in CrewIds : crew_members[k].profile_token # Null}} \cup {WrongToken}

\* the crew ids a URL can carry: the rows of the table and one more
UrlCrewIds == 1..(Len(crew_members) + 1)

Actions == {"approve", "reject", "flag", "other"}
NoteInputs == {<< >>, <<"n1">>, <<"n2">>}

\* --------------------------------------------------------------- Next
\* The portal: registration, the private profile page, the profile link,
\* and generate_profile_token applied to a crew member.  Uploads made
\* through the portal draw one uuid and either succeed or fail at open().
PortalOracle == [uuid : {"u1"}, outcome : {"ok", "open_failed"}, dt : {0}]

Next ==
  \/ \E valid \in BOOLEAN, passport_data \in PassportInputs,
        form_files \in RegistrationFiles :
       \E orc \in OracleSeqs(PortalOracle,
                    Cardinality({f \in Range(file_fields) : Truthy(form_files[f])})) :
         RegisterCrew(valid, passport_data, form_files, orc)
  \/ \E c \in CrewIds, random_bytes \in RandomBytes :
       GenerateProfileToken(c, random_bytes)
  \/ \E authenticated \in BOOLEAN, crew_id \in UrlCrewIds :
       GenerateProfileLink(authenticated, crew_id)
  \/ \E method \in Methods, crew_id \in UrlCrewIds, token \in PresentedTokens :
       \E form \in IF method = "POST" THEN FormInputs ELSE {EmptyForm} :
         \E orc \in OracleSeqs(PortalOracle, FormTruthy(form)) :
           CrewPrivateProfile(method, crew_id, token, form, orc)

Spec == Init /\ [][Next]_vars

\* ------------------------------------------------- the document store
\* The functions of utils and the listing, called for a crew member that
\* registered (register_crew with passport AB1, no files).
InitStore ==
  /\ crew_members = <<NewCrewMember("AB1", NoFileColumns, 0)>>
  /\ crew_documents = << >>
  /\ disk = << >>
  /\ now = 0
  /\ last = Call("init", 0, << >>, << >>, "")
  /\ requests = NoRequests

NextStore ==
  \/ \E file \in BatchFiles, crew_id \in CrewIds, document_type \in UploadTypes :
       /\ Len(crew_documents) + (IF Truthy(file) THEN 1 ELSE 0) <= MaxDocs
       /\ \E orc \in OracleSeqs(Oracle, IF Truthy(file) THEN 1 ELSE 0) :
            SaveCrewDocument(file, crew_id, document_type, orc)
  \/ \E files \in BatchInputs, crew_id \in CrewIds, document_type \in UploadTypes :
       /\ Len(crew_documents) + NumTruthy(files.items) <= MaxDocs
       /\ \E orc \in OracleSeqs(Oracle, IF Falsy(files) THEN 0 ELSE NumTruthy(files.items)) :
            SaveMultipleCrewDocuments(files, crew_id, document_type, orc)
  \/ \E c \in CrewIds, tb \in TieBreaks : GetDocumentCategories(c, tb)

SpecStore == InitStore /\ [][NextStore]_vars

\* ---------------------------------------------- the size of a document
\* Uploads that succeed, and get_file_size_formatted on the rows.
FormatOracle == [uuid : UUIDs, outcome : {"ok"}, dt : {0}]

NextFormat ==
  \/ \E file \in {FileA, FileB}, crew_id \in CrewIds, document_type \in UploadTypes :
       /\ Len(crew_documents) < MaxDocs
       /\ \E orc \in OracleSeqs(FormatOracle, 1) :
            SaveCrewDocument(file, crew_id, document_type, orc)
  \/ \E d \in DocIds : GetFileSizeFormatted(d)

SpecFormat == InitStore /\ [][NextFormat]_vars

\* ------------------------------------------------ concurrent uploads
\* Calls of save_crew_document for one registered crew member, interleaved
\* step by step.
NextUploads ==
  \/ \E r \in Requests, file \in {EmptyFile, FileA, FileB}, crew_id \in CrewIds,
        document_type \in UploadTypes, uuid \in UUIDs :
       UploadBegin(r, file, crew_id, document_type, uuid)
  \/ \E r \in Requests, outcome \in WriteOutcomes : UploadFileSave(r, outcome)
  \/ \E r \in Requests : UploadGetSize(r)
  \/ \E r \in Requests : UploadCommit(r)

SpecUploads == InitStore /\ [][NextUploads]_vars

\* ------------------------------------------- concurrent token issuance
\* Calls of generate_profile_token for registered crew members, interleaved,
\* next to the route generate_profile_link.
InitTokens ==
  /\ crew_members = <<NewCrewMember("AB1", NoFileColumns, 0),
                      NewCrewMember("CD2", NoFileColumns, 0)>>
  /\ crew_documents = << >>
  /\ disk = << >>
  /\ now = 0
  /\ last = Call("init", 0, << >>, << >>, "")
  /\ requests = NoRequests

NextTokens ==
  \/ \E r \in Requests, c \in CrewIds : TokenLoad(r, c)
  \/ \E r \in Requests, random_bytes \in RandomBytes : TokenIssue(r, random_bytes)
  \/ \E authenticated \in BOOLEAN, crew_id \in UrlCrewIds :
       GenerateProfileLink(authenticated, crew_id)

SpecTokens == InitTokens /\ [][NextTokens]_vars

\* ------------------------------------------- concurrent registrations
\* Requests to register_crew on an empty table, interleaved.
NextRegistrations ==
  \/ \E r \in Requests, valid \in BOOLEAN, passport_data \in PassportInputs,
        form_files \in RegistrationFiles :
       \E orc \in OracleSeqs(PortalOracle,
                    Cardinality({f \in Range(file_fields) : Truthy(form_files[f])})) :
         RegisterCheck(r, valid, passport_data, form_files, orc)
  \/ \E r \in Requests : RegisterCommit(r)

SpecRegistrations == Init /\ [][NextRegistrations]_vars

\* ------------------------------------------- the completion evaluator
\* get_profile_completion_percentage on every content of the store: two
\* registered crew members; the store after crew member 1 uploaded one
\* file (or, with twice, two files) of each type in types1 and crew member
\* 2 one file of each type in types2, through save_multiple_crew_documents.
RECURSIVE UploadTypesLoop(_, _, _, _, _)
UploadTypesLoop(st, crew_id, types, items, i) ==
  IF i > Len(document_categories) THEN st
  ELSE LET doc_info == document_categories[i]
           entry == [uuid |-> "u1", outcome |-> "ok", dt |-> 0]
       IN  IF doc_info.field \notin types
           THEN UploadTypesLoop(st, crew_id, types, items, i + 1)
           ELSE UploadTypesLoop(
                  save_multiple_crew_documents(
                    [st EXCEPT !.orc = [k \in 1..Len(items) |-> entry]],
                    FileList(items), crew_id, doc_info.field, doc_info.category),
                  crew_id, types, items, i + 1)

RequiredTypes ==
  {"passport", "photo", "medical_certificate", "cdc", "coc_cop",
   "stcw_certificates", "resume"}

InitCompletion ==
  \E types1 \in SUBSET DocumentTypes, types2 \in {{}, RequiredTypes},
     twice \in BOOLEAN :
    LET st1 == UploadTypesLoop(Ctx(<< >>, << >>, 0, << >>), 1, types1,
                               IF twice THEN <<FileA, FileB>> ELSE <<FileA>>, 1)
        st2 == UploadTypesLoop(st1, 2, types2, <<FileA>>, 1)
    IN  /\ crew_members = <<NewCrewMember("AB1", NoFileColumns, 0),
                           NewCrewMember("CD2", NoFileColumns, 0)>>
        /\ crew_documents = st2.docs
        /\ disk = st2.disk
        /\ now = 0
        /\ last = Call("init", 0, << >>, << >>, "")
        /\ requests = NoRequests

NextCompletion ==
  \E c \in CrewIds, tb \in TieBreaks : GetProfileCompletionPercentage(c, tb)

SpecCompletion == InitCompletion /\ [][NextCompletion]_vars

\* ------------------------------------------------ the status workflow
\* update_crew_status from every status value the column documents
\* (models: 0=Registered, 1=Screening, 2=Documents Verified, 3=Approved,
\* -1=Rejected, -2=Flagged), for one registered crew member.
StatusValues == {0, 1, 2, 3, -1, -2}

InitWorkflow ==
  \E status \in StatusValues :
    /\ crew_members = <<[NewCrewMember("AB1", NoFileColumns, 0) EXCEPT !.status = status]>>
    /\ crew_documents = << >>
    /\ disk = << >>
    /\ now = 0
    /\ last = Call("init", 0, << >>, << >>, "")
    /\ requests = NoRequests

NextWorkflow ==
  \/ Tick
  \/ \E authenticated \in BOOLEAN, crew_id \in UrlCrewIds, action \in Actions,
        notes \in NoteInputs :
       UpdateCrewStatus(authenticated, crew_id, action, notes)

SpecWorkflow == InitWorkflow /\ [][NextWorkflow]_vars

\* ------------------------------------------- a crew member's lifecycle
\* Every operation the program offers on one registered crew member
\* (status 0): uploads through the store functions, the admin's status
\* actions, token issuance, the profile page, the size of an uploaded
\* document, the evaluator.  The crew
\* member starts with no document or with one file of every required type
\* but the passport.
LifecycleOracle == [uuid : {"u1"}, outcome : {"ok", "open_failed"}, dt : {0}]

InitLifecycle ==
  \E types \in {{}, RequiredTypes \ {"passport"}} :
    LET st == UploadTypesLoop(Ctx(<< >>, << >>, 0, << >>), 1, types, <<FileA>>, 1)
    IN  /\ crew_members = <<NewCrewMember("AB1", NoFileColumns, 0)>>
        /\ crew_documents = st.docs
        /\ disk = st.disk
        /\ now = 0
        /\ last = Call("init", 0, << >>, << >>, "")
        /\ requests = NoRequests

NextLifecycle ==
  \/ \E file \in {EmptyFile, FileA}, crew_id \in CrewIds, document_type \in UploadTypes :
       \E orc \in OracleSeqs(LifecycleOracle, IF Truthy(file) THEN 1 ELSE 0) :
         SaveCrewDocument(file, crew_id, document_type, orc)
  \/ \E files \in {FileList(<<EmptyFile, FileA>>), FileList(<<FileA, FileA>>)},
        crew_id \in CrewIds, document_type \in UploadTypes :
       \E orc \in OracleSeqs(LifecycleOracle, NumTruthy(files.items)) :
         SaveMultipleCrewDocuments(files, crew_id, document_type, orc)
  \/ \E authenticated \in BOOLEAN, crew_id \in CrewIds, action \in Actions :
       UpdateCrewStatus(authenticated, crew_id, action, <<"n1">>)
  \/ \E c \in CrewIds, random_bytes \in {"r1"} : GenerateProfileToken(c, random_bytes)
  \/ \E method \in Methods, crew_id \in CrewIds, token \in PresentedTokens :
       CrewPrivateProfile(method, crew_id, token, EmptyForm, << >>)
  \/ \E d \in {i \in DocIds : crew_documents[i].document_type \in UploadTypes} :
       GetFileSizeFormatted(d)
  \/ \E c \in CrewIds, tb \in TieBreaks : GetProfileCompletionPercentage(c, tb)

SpecLifecycle == InitLifecycle /\ [][NextLifecycle]_vars

\* The same, with an admin who keeps using every action the status form
\* offers on the crew member (each action is taken again and again), and
\* a portal that never stops while a request can change something.
SpecLifecycleFair ==
  /\ SpecLifecycle
  /\ WF_vars(NextLifecycle)
  /\ \A action \in Actions :
       WF_vars(UpdateCrewStatus(TRUE, 1, action, <<"n1">>))

\* =============================================================== claims

\* C1: for every crew member and every content of the document store, the
\* completion percentage is floor(100 * k / n), n = 7 the number of required
\* document types of the catalog and k the number of required types with at
\* least one record of that crew member; so it lies in 0..100, is 0 when
\* k = 0 and 100 when k = n, and optional records do not count.
C1_RequiredInCatalog ==
  UNION {{Categories[c].documents[d].type :
            d \in {e \in 1..Len(Categories[c].documents) :
                     Categories[c].documents[e].required}} :
         c \in 1..Len(Categories)}

C1_UploadedRequired(c) ==
  {t \in C1_RequiredInCatalog :
     \E i \in DocIds : /\ crew_documents[i].crew_id = c
                       /\ crew_documents[i].document_type = t}

C1_CompletionIsFloorOfRequiredShare ==
  last.op = "get_profile_completion_percentage" =>
    LET n == Cardinality(C1_RequiredInCatalog)
        k == Cardinality(C1_UploadedRequired(last.self))
    IN  /\ n = 7
        /\ last.ret = (100 * k) \div n
        /\ last.ret \in 0..100
        /\ (k = 0 => last.ret = 0)
        /\ (k = n => last.ret = 100)

\* C1 witness: a percentage strictly between 0 and 100 was computed for a
\* crew member who also holds an optional record and two records of one type
C1_Witness ==
  /\ last.op = "get_profile_completion_percentage"
  /\ last.ret = 57
  /\ \E i \in DocIds : /\ crew_documents[i].crew_id = last.self
                       /\ crew_documents[i].document_type \notin C1_RequiredInCatalog
  /\ \E i, j \in DocIds : /\ i # j
                          /\ crew_documents[i].crew_id = last.self
                          /\ crew_documents[j].crew_id = last.self
                          /\ crew_documents[i].document_type = crew_documents[j].document_type

\* C2: generate_profile_token is idempotent: a call on a crew member whose
\* profile_token is set returns that token and leaves the stored token as
\* it was; every call returns the token that is stored afterwards.
C2_IssueTokenIdempotent ==
  last.op = "generate_profile_token" =>
    /\ last.ret # Null
    /\ crew_members[last.self].profile_token = last.ret
    /\ (last.arg.before # Null => last.ret = last.arg.before)

\* C2 witness: the function was called on a crew member that had a token
C2_Witness ==
  /\ last.op = "generate_profile_token"
  /\ last.arg.before # Null
  /\ crew_members[last.self].profile_token = last.arg.before

\* C3 (helper): the request (id, token) is authorized on the table as it is
C3_Authorized(id, token) ==
  /\ id \in CrewIds
  /\ crew_members[id].profile_token # Null
  /\ crew_members[id].profile_token[1] = token

\* C3: a request to the private profile page is allowed through (the page
\* is rendered or the upload branch runs) only if the crew member exists,
\* its profile_token is set and the presented token equals it; every other
\* request is answered with a refusal (404, 405 or the redirect to index)
\* and leaves crew_members, crew_documents and the upload folder as they were.
C3_OnlyTokenHolderPasses ==
  [][(last'.op = "crew_private_profile"
        /\ ~C3_Authorized(last'.self, last'.arg.token))
       => /\ last'.ret \in {Response(404, "", ""), Response(405, "", ""),
                            Response(302, "index", "error")}
          /\ crew_members' = crew_members
          /\ crew_documents' = crew_documents
          /\ disk' = disk]_vars

\* C3 witness: a request for an existing crew member whose token is set,
\* presenting another token, was refused
C3_Witness ==
  /\ last.op = "crew_private_profile"
  /\ last.arg.method = "GET"
  /\ last.self \in CrewIds
  /\ crew_members[last.self].profile_token # Null
  /\ crew_members[last.self].profile_token # Some(last.arg.token)
  /\ last.ret = Response(302, "index", "error")

\* C4: a refused GET of the private profile page gets the response every
\* other refused GET gets in that state, whether the refusal is for an
\* unknown crew id or for a token that differs from the stored one.
C4_DenialsIndistinguishable ==
  (/\ last.op = "crew_private_profile"
   /\ last.arg.method = "GET"
   /\ ~C3_Authorized(last.self, last.arg.token))
    => \A crew_id \in UrlCrewIds, token \in PresentedTokens :
         ~C3_Authorized(crew_id, token)
           => DenialResponse(crew_members, crew_id, token) = last.ret

\* C5 (helper): the rows of crew member c with document type type
C5_RowsOfType(c, type) ==
  {i \in DocIds : crew_documents[i].crew_id = c
                  /\ crew_documents[i].document_type = type}

\* C5 (helper): the listing returned by get_document_categories holds, for
\* every document type, each row of that crew member and type exactly once,
\* later upload dates first, and count is their number
C5_ListingIsExact ==
  last.op = "get_document_categories" =>
    \A c \in 1..Len(last.ret) : \A d \in 1..Len(last.ret[c].documents) :
      LET entry == last.ret[c].documents[d]
          files == entry.files
      IN  /\ Range(files) = C5_RowsOfType(last.self, entry.type)
          /\ Len(files) = Cardinality(C5_RowsOfType(last.self, entry.type))
          /\ entry.count = Len(files)
          /\ \A k \in 1..(Len(files) - 1) :
               crew_documents[files[k]].upload_date
                 >= crew_documents[files[k + 1]].upload_date

\* C5 (helper): every step keeps the rows there are, and a call of
\* save_crew_document that returns a record has appended exactly one row,
\* of the crew member and document type it was called with
C5_UploadAppends ==
  /\ \A i \in DocIds :
       i \in DOMAIN crew_documents' /\ crew_documents'[i] = crew_documents[i]
  /\ (last' # last /\ last'.op = "save_crew_document" /\ last'.ret # Null)
       => /\ Len(crew_documents') = Len(crew_documents) + 1
          /\ last'.ret = Some(Len(crew_documents'))
          /\ crew_documents'[Len(crew_documents')].crew_id = last'.self
          /\ crew_documents'[Len(crew_documents')].document_type
               = last'.arg.document_type

\* C5: uploading a file for a document type that already has rows adds one
\* row and keeps the earlier ones, and the listing by type returns all rows
\* of that crew member and type, most recent first.
C5_SameTypeUploadsAccumulate ==
  []C5_ListingIsExact /\ [][C5_UploadAppends]_vars

\* C5 witness: two uploads of type passport at different times, listed with
\* the later one first
C5_Witness ==
  /\ last.op = "get_document_categories"
  /\ \E c \in 1..Len(last.ret) : \E d \in 1..Len(last.ret[c].documents) :
       LET entry == last.ret[c].documents[d]
       IN  /\ entry.type = "passport"
           /\ entry.count = 2
           /\ entry.files[1] > entry.files[2]
           /\ crew_documents[entry.files[1]].upload_date
                > crew_documents[entry.files[2]].upload_date

\* C6: save_multiple_crew_documents that returns has created one row per
\* file that has a filename and none for the others, returns exactly the
\* rows it created, in order; it raises only when a write fails, never
\* because of an empty file.
C6_BatchSkipsEmptyFiles ==
  last.op = "save_multiple_crew_documents" =>
    /\ last.exc = "" =>
         /\ Len(crew_documents) = last.arg.before + last.arg.truthy
         /\ last.ret = [k \in 1..last.arg.truthy |-> last.arg.before + k]
         /\ \A k \in 1..Len(last.ret) :
              /\ crew_documents[last.ret[k]].crew_id = last.self
              /\ crew_documents[last.ret[k]].document_type = last.arg.document_type
    /\ last.arg.failed = 0 => last.exc = ""

\* C6 witness: a list of an empty file and a real file gave one row
C6_Witness ==
  /\ last.op = "save_multiple_crew_documents"
  /\ last.arg.given = 2
  /\ last.arg.truthy = 1
  /\ last.exc = ""
  /\ Len(last.ret) = 1
  /\ Len(crew_documents) = last.arg.before + 1

\* C7 (helper): the status an action sets
C7_Target(action) ==
  CASE action = "approve" -> 3
    [] action = "reject" -> -1
    [] action = "flag" -> -2

\* C7: update_crew_status by a logged-in admin with action approve, reject
\* or flag on an existing crew member sets status to 3, -1 or -2 whatever
\* the status was, and admin_notes to the note of the request, replacing
\* the stored note.
C7_PermissiveWorkflow ==
  (/\ last.op = "update_crew_status"
   /\ last.ret.status = 302
   /\ last.arg.action \in {"approve", "reject", "flag"})
    => /\ last.arg.before # Null
       /\ last.arg.before[1].status \in StatusValues
       /\ crew_members[last.self].status = C7_Target(last.arg.action)
       /\ crew_members[last.self].admin_notes = Some(last.arg.notes)

\* C7 witness: approve with note n2 on a flagged crew member that had the
\* note n1 stored
C7_Witness ==
  /\ last.op = "update_crew_status"
  /\ last.ret.status = 302
  /\ last.arg.action = "approve"
  /\ last.arg.notes = <<"n2">>
  /\ last.arg.before = Some([status |-> -2, admin_notes |-> Some(<<"n1">>)])
  /\ crew_members[last.self].status = 3
  /\ crew_members[last.self].admin_notes = Some(<<"n2">>)

\* C8: every row of crew_documents names a file that is in the upload
\* folder and carries the size of the whole uploaded content (the write
\* had succeeded when the row was made), and a save_crew_document that
\* raised has added no row.
C8_NoOrphanMetadata ==
  /\ \A i \in DocIds :
       /\ crew_documents[i].filename \in DOMAIN disk
       /\ \E f \in FileInputs :
            /\ Truthy(f)
            /\ f.filename = crew_documents[i].original_filename
            /\ crew_documents[i].file_size = <<ContentSize(f.content), 0>>
  /\ (last.op = "save_crew_document" /\ last.exc # "")
       => /\ Len(crew_documents) = last.arg.before
          /\ last.ret = Null

\* C8 witness: a write broke off, its partial file is in the folder and no
\* row names it
C8_Witness ==
  /\ last.op = "save_crew_document"
  /\ last.arg.truthy
  /\ last.exc = "OSError"
  /\ Len(crew_documents) = last.arg.before
  /\ \E path \in DOMAIN disk :
       /\ disk[path] = "truncated"
       /\ \A i \in DocIds : crew_documents[i].filename # path

\* C9: in save_multiple_crew_documents a failing write costs only its own
\* file: the rows created are as many as the files with a filename whose
\* write did not fail.
C9_BatchContinuesAfterFailure ==
  last.op = "save_multiple_crew_documents" =>
    Len(crew_documents) = last.arg.before + last.arg.truthy - last.arg.failed

\* C10: no step removes a row of crew_documents or changes a field of it.
C10_RecordsImmutable ==
  [][\A i \in DocIds :
       i \in DOMAIN crew_documents' /\ crew_documents'[i] = crew_documents[i]]_vars

\* C11 (helper): request r is a call of save_crew_document that returned
\* a record
C11_Saved(r) ==
  /\ requests[r].op = "save_crew_document"
  /\ requests[r].pc = "done"
  /\ requests[r].ret # Null

\* C11: two calls of save_crew_document that ran at the same time and whose
\* writes succeeded have each made a row, the two rows name different
\* stored files, and each stored file holds the bytes its own call wrote
\* and the row the size of those bytes.
C11_ConcurrentUploadsSafe ==
  \A p \in Requests, q \in Requests :
    /\ requests[p].op = "save_crew_document" /\ requests[p].pc = "done"
         /\ Truthy(requests[p].file[1]) /\ requests[p].exc = ""
         => C11_Saved(p)
    /\ (p # q /\ C11_Saved(p) /\ C11_Saved(q)) =>
         LET row_p == crew_documents[requests[p].ret[1]]
             row_q == crew_documents[requests[q].ret[1]]
         IN  /\ row_p.filename # row_q.filename
             /\ disk[row_p.filename] = requests[p].file[1].content
             /\ row_p.file_size = <<ContentSize(requests[p].file[1].content), 0>>

\* C12 (helper): every call of generate_profile_token that returned has
\* returned the token that is stored
C12_ReturnedIsStored ==
  \A r \in Requests :
    (requests[r].op = "generate_profile_token" /\ requests[r].pc = "done"
       /\ requests[r].exc = "")
      => crew_members[requests[r].self].profile_token = requests[r].ret

\* C12 (helper): no step changes a profile_token that is set
C12_SetTokenKept ==
  \A c \in CrewIds :
    crew_members[c].profile_token # Null
      => crew_members'[c].profile_token = crew_members[c].profile_token

\* C12: once a profile_token is stored for a crew member no step changes
\* it, whatever the interleaving of the calls of generate_profile_token,
\* and every token a call has returned is the stored one.
C12_TokenStableOnceIssued ==
  []C12_ReturnedIsStored /\ [][C12_SetTokenKept]_vars

\* C13: a registration that has committed its crew member row ends with
\* the success redirect and that row has a profile_token, set by
\* generate_profile_token called on the new CrewMember.
C13_RegistrationIssuesToken ==
  (last.op = "register_crew" /\ last.self \in CrewIds)
    => /\ crew_members[last.self].profile_token # Null
       /\ last.exc = ""
       /\ last.ret = Response(302, "track_status", "success")

\* C14 (helper): no two rows of crew_members hold the same passport
C14_OnePerPassport ==
  \A i \in CrewIds, j \in CrewIds :
    crew_members[i].passport = crew_members[j].passport => i = j

\* C14 (helper): a registration that ends while a row with its passport
\* (in upper case) is in the table adds no row
C14_UsedPassportAddsNothing ==
  \A r \in Requests :
    (/\ requests'[r] # requests[r]
     /\ requests'[r].op = "register_crew"
     /\ requests'[r].pc = "done"
     /\ \E i \in CrewIds : crew_members[i].passport = requests'[r].passport)
      => crew_members' = crew_members

\* C14: in every interleaving of registrations at most one crew member row
\* holds a given passport (compared in upper case), and a registration for
\* a passport that is in the table creates no row.
C14_PassportUnique ==
  []C14_OnePerPassport /\ [][C14_UsedPassportAddsNothing]_vars

\* C14 witness: two registrations with the same passport both passed the
\* passport query; one committed its row, the commit of the other failed
C14_Witness ==
  \E p \in Requests, q \in Requests :
    /\ p # q
    /\ requests[p].op = "register_crew" /\ requests[p].pc = "done"
    /\ requests[q].op = "register_crew" /\ requests[q].pc = "done"
    /\ requests[p].passport = requests[q].passport
    /\ requests[p].self \in CrewIds
    /\ crew_members[requests[p].self].passport = requests[p].passport
    /\ requests[q].exc = "IntegrityError"
    /\ Cardinality(CrewByPassport(crew_members, requests[p].passport)) = 1

\* C15: starting from a newly registered crew member (status 0), each of
\* the six statuses 0, 1, 2, 3, -1, -2 is reached when the admin keeps
\* using every action of the program.
C15_EveryStatusReached ==
  \A status \in StatusValues :
    <>(\E c \in CrewIds : crew_members[c].status = status)

\* C16: no step lowers the completion percentage of a crew member, and a
\* percentage of 100 stays 100 (whatever order the database lists rows of
\* equal upload date in).
C16_CompletionNeverDecreases ==
  [][\A c \in CrewIds, tb \in TieBreaks :
       LET before == get_profile_completion_percentage(crew_documents, c, tb)
           after == get_profile_completion_percentage(crew_documents', c, tb)
       IN  /\ after >= before
           /\ before = 100 => after = 100]_vars

\* C16 witness: the passport, the one required type that was missing, was
\* uploaded, another file followed, and the evaluator returns 100
C16_Witness ==
  /\ last.op = "get_profile_completion_percentage"
  /\ last.ret = 100
  /\ \E i \in DocIds, j \in DocIds :
       /\ i < j
       /\ crew_documents[i].crew_id = last.self
       /\ crew_documents[i].document_type = "passport"
       /\ \A k \in 1..(i - 1) : crew_documents[k].document_type # "passport"
       /\ crew_documents[j].crew_id = last.self
       /\ Len(crew_documents) >= 8

====
